---- MODULE Spec2Model ----
(***************************************************************************)
(* Model of the Garaga auto prover bridge                                  *)
(* (backend-rust/scripts/garaga_auto_prover.py).                           *)
(*                                                                         *)
(* Every bridge invocation is an operating-system process; the processes   *)
(* share one Redis key (the admission counter) and nothing else.  One step *)
(* of the model is one redis-cli call, the start or the end of the         *)
(* external prover command, or a poll sleep, together with the local       *)
(* computation that follows it up to the next such call.                   *)
(***************************************************************************)
EXTENDS Integers, FiniteSets, Sequences, TLC

\* ------------------------------------------------------------------ bounds
NumProcs == 2
NumClients == 1
MaxConcurrent == 1
QueueTimeoutPolls == 1
SlotTTL == 2
MaxReleaseCalls == 2
MaxCounter == 2
MaxInputs == 3
MaxIndex == 2
MaxClock == 2
MaxMagnitude == 260

Procs == 1..NumProcs

\* The processes that run under store faults (Spec).
Clients == 1..NumClients

\* store: the counter key; fail_open: GARAGA_PROVER_QUEUE_FAIL_OPEN; proc: the
\* position and the locals of every process; counted: the processes whose
\* increment was made on the key as it is now and has not been undone by
\* their own DECR (history, read by the properties only).
VARIABLES store, fail_open, proc, counted, cfg, bp, stdout, call

vars == <<store, fail_open, proc, counted, cfg, bp, stdout, call>>

\* The state of the bridge run (its configuration, its position in main and
\* build_payload, its standard output) and the calls made of the pure
\* functions: the queue's operations leave them alone.
aux == <<cfg, bp, stdout, call>>

\* ------------------------------------------------------- the counter store
\* The key of the admission counter: absent, or an integer with an optional
\* time to live (ttl = 0: the key never expires).
Absent == [present |-> FALSE, val |-> 0, ttl |-> 0]

INCR(s) ==
    IF s.present THEN [s EXCEPT !.val = s.val + 1]
    ELSE [present |-> TRUE, val |-> 1, ttl |-> 0]

DECR(s) ==
    IF s.present THEN [s EXCEPT !.val = s.val - 1]
    ELSE [present |-> TRUE, val |-> -1, ttl |-> 0]

EXPIRE(s, secs) == IF s.present THEN [s EXCEPT !.ttl = secs] ELSE s

DEL(s) == Absent

\* What one run of redis-cli can give back: "ok" exit status 0 and the
\* command's integer reply; "empty" exit status 0 and nothing on stdout;
\* "garbage" exit status 0 and a reply that is not an integer; "fail" a
\* non-zero exit status, a client timeout or a client that cannot be started.
RedisReplies == {"ok", "empty", "garbage", "fail"}

\* The command reaches the store and changes the key only in an "ok" run.
Applied(reply) == reply = "ok"

\* Leaked increments and stray decrements add up over the invocations: the
\* model stops counting at MaxCounter in either direction.
CanIncr(reply) == Applied(reply) => store.val < MaxCounter

CanDecr(reply) == Applied(reply) => store.val > -MaxCounter

\* redis_cli() with the hard_fail argument ignored: every failed run is fatal.
redis_cliAlwaysHard(reply, hard_fail) ==
    IF reply = "fail" THEN "SystemExit" ELSE reply

\* redis_cli(): fail() raises SystemExit when hard_fail is set, otherwise the
\* failure is logged and "" is returned; a run that exits 0 returns its stdout.
redis_cli(reply, hard_fail) ==
    IF reply = "fail"
    THEN IF hard_fail THEN "SystemExit" ELSE "empty"
    ELSE reply

\* ------------------------------------------------------------ the processes
InitProc ==
    [pc |-> "idle", mode |-> "bridge", skip |-> FALSE, lease |-> "none",
     current |-> 0, polls |-> 0, result |-> "none", outcome |-> "none",
     relCalls |-> 0, relOps |-> 0, fault |-> "none", pending |-> 0, child |-> "none"]

Upd(p, r) == proc' = [proc EXCEPT ![p] = r]

\* fail(): the message goes to stderr and SystemExit ends the process.
fail(r, why) == [r EXCEPT !.pc = "done", !.outcome = why, !.current = 0]

\* acquire_prover_queue_slot returns RedisQueueLease(acquired=False): the
\* caller goes on to run the prover.
ReturnUnacquired(r) == [r EXCEPT !.pc = "run", !.lease = "unacquired", !.current = 0]

\* The lease released as soon as it is acquired, before the command is run.
ReturnAcquiredReleaseFirst(r) ==
    [r EXCEPT !.pc = "rel_decr", !.lease = "acquired", !.current = 0]

\* lease.acquired = True; return lease: the caller goes on to run the prover.
ReturnAcquired(r) == [r EXCEPT !.pc = "run", !.lease = "acquired", !.current = 0]

\* The key as processes outside the model may have left it: absent, or
\* counting up to max_concurrent holders, with the TTL acquire sets.
\* No bridge run in progress and no call made.
NoCfg ==
    [precomputed |-> FALSE, allow |-> FALSE, prove_cmd |-> FALSE,
     proof_path |-> FALSE, vk |-> FALSE, dynamic |-> FALSE]

InitBp ==
    [stage |-> "none", precomputed_payload |-> FALSE, proof |-> "none",
     public_inputs |-> "none", binding |-> "none", err |-> "none"]

NoBridge ==
    /\ cfg = NoCfg
    /\ bp = InitBp
    /\ stdout = <<>>
    /\ call = <<>>

InitialStores ==
    {Absent} \cup {[present |-> TRUE, val |-> v, ttl |-> SlotTTL] : v \in 1..MaxConcurrent}

Init ==
    /\ store \in InitialStores
    /\ fail_open \in BOOLEAN
    /\ proc = [p \in Procs |-> InitProc]
    /\ counted = {}
    /\ NoBridge

InitReachable == Init /\ store = Absent

\* maybe_run_external_prover with a prover command configured, up to the
\* first store command: the bypass flag of the process's own environment
\* skips the queue; without a store address acquire degrades (fail-open) or
\* is fatal (strict).  A process that has ended gives way to a new invocation.
StartBridge(p, sk, url) ==
    /\ proc[p].pc \in {"idle", "done"}
    /\ LET r == [InitProc EXCEPT !.skip = sk] IN
       Upd(p, IF sk THEN [r EXCEPT !.pc = "run"]
              ELSE IF ~url
                   THEN IF fail_open
                        THEN ReturnUnacquired([r EXCEPT !.fault = "acquire"])
                        ELSE fail(r, "fatal_config")
                   ELSE [r EXCEPT !.pc = "incr"])
    /\ UNCHANGED <<store, fail_open, counted>>
    /\ UNCHANGED aux

\* run_prove_mode: the real prover command is run directly.
StartProve(p, sk) ==
    /\ proc[p].pc \in {"idle", "done"}
    /\ Upd(p, [InitProc EXCEPT !.mode = "prove", !.skip = sk, !.pc = "run"])
    /\ UNCHANGED <<store, fail_open, counted>>
    /\ UNCHANGED aux

\* INCR key, and the parse of its reply.
Incr(p, reply) ==
    /\ proc[p].pc = "incr"
    /\ CanIncr(reply)
    /\ LET r == proc[p]
           raw == redis_cli(reply, ~fail_open)
           f == IF reply = "fail" THEN [r EXCEPT !.fault = "acquire"] ELSE r
           s == IF Applied(reply) THEN INCR(store) ELSE store
       IN /\ store' = s
          /\ Upd(p, CASE raw = "SystemExit" -> fail(f, "fatal_store")
                      [] raw = "empty" -> ReturnUnacquired(f)
                      [] raw = "garbage" ->
                            IF fail_open THEN ReturnUnacquired(f)
                            ELSE fail(f, "fatal_store")
                      [] OTHER ->
                            [f EXCEPT !.pc = "expire", !.current = s.val,
                                      !.pending = @ + 1])
    /\ counted' = IF Applied(reply) THEN counted \cup {p} ELSE counted
    /\ UNCHANGED fail_open
    /\ UNCHANGED aux

\* EXPIRE key slot_ttl_secs, then the capacity test current <= max_concurrent.
Expire(p, reply) ==
    /\ proc[p].pc = "expire"
    /\ LET r == proc[p]
           raw == redis_cli(reply, ~fail_open)
           f == IF reply = "fail" THEN [r EXCEPT !.fault = "acquire"] ELSE r
       IN /\ store' = IF Applied(reply) THEN EXPIRE(store, SlotTTL) ELSE store
          /\ Upd(p, CASE raw = "SystemExit" -> fail(f, "fatal_store")
                      [] raw = "empty" /\ fail_open ->
                            [f EXCEPT !.pc = "undo", !.current = 0]
                      [] OTHER ->
                            IF f.current <= MaxConcurrent
                            THEN ReturnAcquired(f)
                            ELSE [f EXCEPT !.pc = "decr", !.current = 0])
    /\ UNCHANGED counted
    /\ UNCHANGED fail_open
    /\ UNCHANGED aux

\* The DECR that undoes the increment after a failed EXPIRE (fail-open only).
Undo(p, reply) ==
    /\ proc[p].pc = "undo"
    /\ CanDecr(reply)
    /\ LET r == proc[p] IN
       /\ store' = IF Applied(reply) THEN DECR(store) ELSE store
       /\ Upd(p, ReturnUnacquired(
                   [r EXCEPT !.pending = IF Applied(reply) THEN @ - 1 ELSE @]))
    /\ counted' = IF Applied(reply) THEN counted \ {p} ELSE counted
    /\ UNCHANGED fail_open
    /\ UNCHANGED aux

\* The deadline tested before the DECR: a timed-out attempt is not undone.
DecrDeadlineFirst(p, reply) ==
    /\ proc[p].pc = "decr"
    /\ CanDecr(reply)
    /\ LET r == proc[p]
           late == r.polls >= QueueTimeoutPolls
           raw == redis_cli(reply, ~fail_open)
           f == [r EXCEPT !.fault = IF reply = "fail" /\ ~late THEN "acquire" ELSE @,
                          !.pending = IF Applied(reply) /\ ~late THEN @ - 1 ELSE @]
       IN /\ store' = IF Applied(reply) /\ ~late THEN DECR(store) ELSE store
          /\ Upd(p, CASE late -> fail(f, "fatal_queue_timeout")
                      [] raw = "SystemExit" -> fail(f, "fatal_store")
                      [] raw = "empty" /\ fail_open -> ReturnUnacquired(f)
                      [] OTHER -> [f EXCEPT !.pc = "sleep"])
    /\ counted' = IF Applied(reply) /\ proc[p].polls < QueueTimeoutPolls
                  THEN counted \ {p} ELSE counted
    /\ UNCHANGED fail_open
    /\ UNCHANGED aux

\* The DECR of a rejected attempt, then the deadline test.
Decr(p, reply) ==
    /\ proc[p].pc = "decr"
    /\ CanDecr(reply)
    /\ LET r == proc[p]
           raw == redis_cli(reply, ~fail_open)
           f == [r EXCEPT !.fault = IF reply = "fail" THEN "acquire" ELSE @,
                          !.pending = IF Applied(reply) THEN @ - 1 ELSE @]
       IN /\ store' = IF Applied(reply) THEN DECR(store) ELSE store
          /\ Upd(p, CASE raw = "SystemExit" -> fail(f, "fatal_store")
                      [] raw = "empty" /\ fail_open -> ReturnUnacquired(f)
                      [] OTHER ->
                            IF f.polls >= QueueTimeoutPolls
                            THEN fail(f, "fatal_queue_timeout")
                            ELSE [f EXCEPT !.pc = "sleep"])
    /\ counted' = IF Applied(reply) THEN counted \ {p} ELSE counted
    /\ UNCHANGED fail_open
    /\ UNCHANGED aux

\* The deadline recomputed in every iteration: the sleeps never reach it.
SleepNoClock(p) ==
    /\ proc[p].pc = "sleep"
    /\ Upd(p, [proc[p] EXCEPT !.pc = "incr"])
    /\ UNCHANGED <<store, fail_open, counted>>
    /\ UNCHANGED aux

\* time.sleep(0.2), and back to the head of the loop.
Sleep(p) ==
    /\ proc[p].pc = "sleep"
    /\ Upd(p, [proc[p] EXCEPT !.pc = "incr", !.polls = @ + 1])
    /\ UNCHANGED <<store, fail_open, counted>>
    /\ UNCHANGED aux

\* ----------------------------------------------- the guarded prover command
\* The statements after the try/finally of maybe_run_external_prover: a
\* SystemExit raised by run_shell (timeout, OSError) continues to propagate,
\* a non-zero return code is fatal, and status 0 returns to the caller.
AfterRelease(r) ==
    [r EXCEPT !.pc = "done",
              !.outcome = IF r.result = "exit0" THEN "ok" ELSE "fatal_prover"]

\* release() with its first test inverted: it returns when the lease is acquired.
releaseInverted(r) ==
    LET c == [r EXCEPT !.relCalls = @ + 1]
    IN IF c.lease = "unacquired" THEN [c EXCEPT !.pc = "rel_decr"]
       ELSE AfterRelease(c)

\* release(): returns at once unless self.acquired; the flag is only read.
release(r) ==
    LET c == [r EXCEPT !.relCalls = @ + 1]
    IN IF c.lease = "acquired" THEN [c EXCEPT !.pc = "rel_decr"]
       ELSE AfterRelease(c)

\* release() placed after run_shell instead of in a finally clause: it is
\* skipped when run_shell raises SystemExit (timeout, OSError).
EnterFinallyNoCleanup(r, res) ==
    LET f == [r EXCEPT !.result = res]
    IN IF f.lease = "none" \/ res \in {"timeout", "oserror"}
       THEN AfterRelease(f) ELSE release(f)

\* The finally clause: lease.release() is called when a lease object exists.
EnterFinally(r, res) ==
    LET f == [r EXCEPT !.result = res]
    IN IF f.lease = "none" THEN AfterRelease(f) ELSE release(f)

\* run_shell cannot start the command (OSError): fail() inside the try block.
RunFail(p) ==
    /\ proc[p].pc = "run"
    /\ Upd(p, EnterFinally(proc[p], "oserror"))
    /\ UNCHANGED <<store, fail_open, counted>>
    /\ UNCHANGED aux

\* Values of GARAGA_QUEUE_SKIP in an environment, after strip() and lower();
\* "" stands for a variable that is unset or blank.
QueueSkipValues == {"", "0", "1", "yes"}

\* bool_env: the default for an empty value, else membership in the true words.
bool_env(raw, default) ==
    IF raw = "" THEN default ELSE raw \in {"1", "true", "yes", "on"}

\* What bool_env("GARAGA_QUEUE_SKIP", False) returns over those values.
QueueSkipFlags == {bool_env(raw, FALSE) : raw \in QueueSkipValues}

\* The child's environment without the flag of extra_env: the child reads
\* whatever the parent's own environment holds.
ChildQueueSkipInherited(r) == r.skip

\* The queue-bypass flag as the child reads it: run_shell copies os.environ
\* and updates it with extra_env, which maybe_run_external_prover builds with
\* GARAGA_QUEUE_SKIP = "1"; run_prove_mode passes no extra_env.
ChildQueueSkip(r) ==
    IF r.mode = "bridge" THEN bool_env("1", FALSE) ELSE r.skip

\* subprocess.run starts the prover command.
RunStart(p) ==
    /\ proc[p].pc = "run"
    /\ Upd(p, [proc[p] EXCEPT !.pc = "running",
                              !.child = IF ChildQueueSkip(proc[p])
                                        THEN "bypass" ELSE "queue"])
    /\ UNCHANGED <<store, fail_open, counted>>
    /\ UNCHANGED aux

ProverResults == {"exit0", "nonzero", "timeout"}

\* The command ends: it exits, or it is killed at timeout_secs.
ProverEnd(p, res) ==
    /\ proc[p].pc = "running"
    /\ Upd(p, EnterFinally(proc[p], res))
    /\ UNCHANGED <<store, fail_open, counted>>
    /\ UNCHANGED aux

\* ------------------------------------------------- RedisQueueLease.release
\* The except clause of release() names Exception: it catches the ValueError
\* of int(), and not the SystemExit that fail() raises.
CaughtInRelease(exc) == exc = "ValueError"

\* What release()'s DECR call raises, if anything.
RaisedBy(raw) ==
    CASE raw = "SystemExit" -> "SystemExit"
      [] raw = "garbage" -> "ValueError"
      [] OTHER -> "none"

\* DECR key; int(reply or "0") <= 0 leads to the DEL.
RelDecr(p, reply) ==
    /\ proc[p].pc = "rel_decr"
    /\ CanDecr(reply)
    /\ LET r == proc[p]
           raw == redis_cli(reply, TRUE)
           exc == RaisedBy(raw)
           s == IF Applied(reply) THEN DECR(store) ELSE store
           current == IF raw = "empty" THEN 0 ELSE s.val
           f == [r EXCEPT !.relOps = @ + 1,
                          !.fault = IF reply = "fail" THEN "release" ELSE @,
                          !.pending = IF Applied(reply) THEN @ - 1 ELSE @]
       IN /\ store' = s
          /\ Upd(p, IF exc # "none"
                    THEN IF CaughtInRelease(exc) THEN AfterRelease(f)
                         ELSE fail(f, "fatal_release")
                    ELSE IF current <= 0 THEN [f EXCEPT !.pc = "rel_del"]
                         ELSE AfterRelease(f))
    /\ counted' = IF Applied(reply) THEN counted \ {p} ELSE counted
    /\ UNCHANGED fail_open
    /\ UNCHANGED aux

\* DEL key.
RelDel(p, reply) ==
    /\ proc[p].pc = "rel_del"
    /\ LET r == proc[p]
           raw == redis_cli(reply, TRUE)
           f == [r EXCEPT !.relOps = @ + 1,
                          !.fault = IF reply = "fail" THEN "release" ELSE @]
       IN /\ store' = IF Applied(reply) THEN DEL(store) ELSE store
          /\ counted' = IF Applied(reply) THEN {} ELSE counted
          /\ Upd(p, IF raw = "SystemExit" /\ ~CaughtInRelease("SystemExit")
                    THEN fail(f, "fatal_release")
                    ELSE AfterRelease(f))
    /\ UNCHANGED <<fail_open>>
    /\ UNCHANGED aux

\* ------------------------------------------------------ crash and expiry
\* The process is killed while its prover command runs: no finally clause,
\* no release; its increment stays in the counter.
Crash(p) ==
    /\ proc[p].pc = "running"
    /\ proc[p].lease = "acquired"
    /\ Upd(p, [proc[p] EXCEPT !.pc = "crashed"])
    /\ UNCHANGED <<store, fail_open, counted>>
    /\ UNCHANGED aux

\* One unit of time passes: the key's time to live runs down, and the store
\* removes the key when it reaches zero.
Tick ==
    /\ store.present
    /\ store.ttl > 0
    /\ IF store.ttl = 1
       THEN store' = Absent /\ counted' = {}
       ELSE store' = [store EXCEPT !.ttl = @ - 1] /\ UNCHANGED counted
    /\ UNCHANGED <<fail_open, proc>>
    /\ UNCHANGED aux

\* --------------------------------------------- release() called by a client
\* A caller that holds a lease object calls release() on it, again and again.
CallRelease(p) ==
    /\ proc[p].pc \in {"run", "done"}
    /\ proc[p].lease # "none"
    /\ proc[p].relCalls < MaxReleaseCalls
    /\ Upd(p, release(proc[p]))
    /\ UNCHANGED <<store, fail_open, counted>>
    /\ UNCHANGED aux

\* ------------------------------------------------ strings and felt values
\* A string is the sequence of its characters.
\* str.strip() over the one whitespace character of the model.
RECURSIVE StripLeft(_)
StripLeft(s) == IF s # <<>> /\ Head(s) = " " THEN StripLeft(Tail(s)) ELSE s

RECURSIVE StripRight(_)
StripRight(s) ==
    IF s # <<>> /\ s[Len(s)] = " " THEN StripRight(SubSeq(s, 1, Len(s) - 1)) ELSE s

strip(s) == StripRight(StripLeft(s))

\* str.lower() over the upper-case letters of the model.
LowerChar(c) ==
    CASE c = "A" -> "a"
      [] c = "B" -> "b"
      [] c = "S" -> "s"
      [] c = "X" -> "x"
      [] OTHER -> c

lower(s) == [i \in 1..Len(s) |-> LowerChar(s[i])]

\* sep.join(parts)
RECURSIVE join(_, _)
join(sep, parts) ==
    IF parts = <<>> THEN <<>>
    ELSE IF Len(parts) = 1 THEN parts[1]
    ELSE parts[1] \o sep \o join(sep, Tail(parts))

HexChars ==
    <<"0", "1", "2", "3", "4", "5", "6", "7", "8", "9", "a", "b", "c", "d", "e", "f">>

\* The value of a digit in a base, or -1 for a character that is no digit.
DigitVal(c, base) ==
    LET hits == {i \in 1..base : HexChars[i] = LowerChar(c)}
    IN IF hits = {} THEN -1 ELSE (CHOOSE i \in hits : TRUE) - 1

\* int(text, base) over unsigned digit strings: -1 stands for ValueError.
RECURSIVE ParseDigits(_, _, _)
ParseDigits(text, base, acc) ==
    IF text = <<>> THEN acc
    ELSE IF DigitVal(Head(text), base) < 0 THEN -1
    ELSE ParseDigits(Tail(text), base, acc * base + DigitVal(Head(text), base))

ParseInt(text, base) == IF text = <<>> THEN -1 ELSE ParseDigits(text, base, 0)

\* The digits of a positive number in a base.
RECURSIVE Digits(_, _)
Digits(n, base) ==
    IF n = 0 THEN <<>> ELSE Digits(n \div base, base) \o <<HexChars[(n % base) + 1]>>

\* str(n) and hex(n) of a number n >= 0.
str(n) == IF n = 0 THEN <<"0">> ELSE Digits(n, 10)

hex(n) == <<"0", "x">> \o (IF n = 0 THEN <<"0">> ELSE Digits(n, 16))

\* int(text, base) of a stripped string: an optional sign, in base 16 an
\* optional 0x prefix, then digits.
int(text, base) ==
    LET signed == text # <<>> /\ Head(text) \in {"+", "-"}
        body == IF signed THEN Tail(text) ELSE text
        prefixed == base = 16 /\ Len(body) >= 2 /\ lower(SubSeq(body, 1, 2)) = <<"0", "x">>
        magnitude == ParseInt(IF prefixed THEN SubSeq(body, 3, Len(body)) ELSE body, base)
    IN IF magnitude < 0 THEN [ok |-> FALSE, val |-> 0]
       ELSE [ok |-> TRUE,
             val |-> IF signed /\ Head(text) = "-" THEN 0 - magnitude ELSE magnitude]

\* The field modulus, scaled down from 2^251 + 17 * 2^192 + 1 to a prime the
\* model's integers can hold, so that the reduction is exercised.
STARKNET_PRIME == 251

\* to_hex_felt without the reduction modulo the field prime.
to_hex_feltUnreduced(value) ==
    LET raw == strip(value)
        prefixed == Len(raw) >= 2 /\ lower(SubSeq(raw, 1, 2)) = <<"0", "x">>
        intval == IF prefixed THEN int(raw, 16) ELSE int(raw, 10)
    IN IF raw = <<>> THEN [exc |-> "SystemExit", felt |-> <<>>]
       ELSE IF ~intval.ok THEN [exc |-> "ValueError", felt |-> <<>>]
       ELSE [exc |-> "none", felt |-> IF intval.val < 0 THEN <<>> ELSE hex(intval.val)]

\* to_hex_felt of a string: strip, parse in base 16 after a 0x prefix and in
\* base 10 otherwise, reduce modulo the field prime, format with hex().
to_hex_felt(value) ==
    LET raw == strip(value)
        prefixed == Len(raw) >= 2 /\ lower(SubSeq(raw, 1, 2)) = <<"0", "x">>
        intval == IF prefixed THEN int(raw, 16) ELSE int(raw, 10)
    IN IF raw = <<>> THEN [exc |-> "SystemExit", felt |-> <<>>]
       ELSE IF ~intval.ok THEN [exc |-> "ValueError", felt |-> <<>>]
       ELSE [exc |-> "none", felt |-> hex(intval.val % STARKNET_PRIME)]

\* to_hex_felt of any value: a str as above, an int reduced and formatted,
\* and fail() for every other type.
to_hex_felt_any(value) ==
    CASE value.type = "str" -> to_hex_felt(value.text)
      [] value.type = "int" -> [exc |-> "none", felt |-> hex(value.n % STARKNET_PRIME)]
      [] OTHER -> [exc |-> "SystemExit", felt |-> <<>>]

\* The decimal string of an integer, as str() writes it.
decimal(n) == IF n < 0 THEN <<"-">> \o str(0 - n) ELSE str(n)

\* A value passed to to_hex_felt: a str with its text, or an int.
StrValue(text) == [type |-> "str", n |-> 0, text |-> text]

IntValue(n) == [type |-> "int", n |-> n, text |-> <<>>]

\* The inputs of the normalization: every integer of magnitude up to
\* MaxMagnitude as a native int, as a decimal string and, when it is not
\* negative, as a 0x-prefixed hexadecimal string.
ValidFeltInputs ==
    {IntValue(n) : n \in (0 - MaxMagnitude)..MaxMagnitude}
    \cup {StrValue(decimal(n)) : n \in (0 - MaxMagnitude)..MaxMagnitude}
    \cup {StrValue(hex(n)) : n \in 0..MaxMagnitude}

\* Inputs that are no number: a blank string, a word, a sign inside a
\* hexadecimal string, a float.
InvalidFeltInputs ==
    {StrValue(<<" ">>), StrValue(<<"z">>), StrValue(<<"0", "x", "-", "5">>),
     [type |-> "float", n |-> 0, text |-> <<>>]}

\* One call of to_hex_felt, and a second call on what the first returned.
CallNormalize(value) ==
    /\ call = <<>>
    /\ LET first == to_hex_felt_any(value)
       IN call' = <<[value |-> value,
                     result |-> first,
                     again |-> IF first.exc = "none"
                               THEN to_hex_felt_any(StrValue(first.felt))
                               ELSE first]>>
    /\ UNCHANGED <<store, fail_open, proc, counted, cfg, bp, stdout>>

\* ---------------------------------------------------- compute_intent_hash
\* The keys of tx_context that compute_intent_hash reads, in sorted order.
TxKeys ==
    <<"action_type", "amount", "flow", "from_token", "nonce", "pool", "price",
      "to_token", "token">>

\* _tx_field: the first of the keys whose value is present and not blank,
\* stripped; the empty string when there is none.  An absent key reads <<>>.
RECURSIVE _tx_field(_, _)
_tx_field(tx_context, keys) ==
    IF keys = <<>> THEN <<>>
    ELSE IF strip(tx_context[Head(keys)]) # <<>> THEN strip(tx_context[Head(keys)])
    ELSE _tx_field(tx_context, Tail(keys))

\* json.dumps(tx_context, sort_keys=True) over the keys that are present; a
\* key name is written as one token.
RECURSIVE JsonItems(_, _)
JsonItems(tx_context, keys) ==
    IF keys = <<>> THEN <<>>
    ELSE IF tx_context[Head(keys)] = <<>> THEN JsonItems(tx_context, Tail(keys))
    ELSE <<<<"\"", Head(keys), "\"", ":", " ", "\"">> \o tx_context[Head(keys)] \o <<"\"">>>>
         \o JsonItems(tx_context, Tail(keys))

json_dumps(tx_context) ==
    <<"{">> \o join(<<",", " ">>, JsonItems(tx_context, TxKeys)) \o <<"}">>

\* The nonce taken from the clock whatever the request carries.
resolve_nonceFromClock(stdin_payload, now) == str(now)

\* The nonce: tx_context.nonce, else requested_at_unix, else time.time_ns().
resolve_nonce(stdin_payload, now) ==
    LET explicit == _tx_field(stdin_payload.tx_context, <<"nonce">>)
        requested == strip(stdin_payload.requested_at_unix)
    IN IF explicit # <<>> THEN explicit
       ELSE IF requested # <<>> THEN requested
       ELSE str(now)

FlowSwap == <<"s", "w", "a", "p">>

FlowStake == <<"s", "t", "a", "k", "e">>

FlowLimit == <<"l", "i", "m", "i", "t">>

flow_of(stdin_payload) == lower(_tx_field(stdin_payload.tx_context, <<"flow", "action_type">>))

\* The ordered list of fields that is joined and hashed, by flow.
preimage(stdin_payload, nonce) ==
    LET tx_context == stdin_payload.tx_context
        flow == flow_of(stdin_payload)
        user_address == lower(strip(stdin_payload.user_address))
        token == _tx_field(tx_context, <<"token", "from_token">>)
        pool == IF _tx_field(tx_context, <<"pool">>) # <<>>
                THEN _tx_field(tx_context, <<"pool">>) ELSE token
    IN CASE flow = FlowSwap ->
              <<user_address, _tx_field(tx_context, <<"from_token">>),
                _tx_field(tx_context, <<"to_token">>),
                _tx_field(tx_context, <<"amount">>), nonce>>
         [] flow = FlowLimit ->
              <<user_address, _tx_field(tx_context, <<"from_token">>),
                _tx_field(tx_context, <<"to_token">>),
                _tx_field(tx_context, <<"amount">>),
                _tx_field(tx_context, <<"price">>), nonce>>
         [] flow = FlowStake ->
              <<user_address, token, _tx_field(tx_context, <<"amount">>), pool, nonce>>
         [] OTHER -> <<user_address, json_dumps(tx_context), nonce>>

\* SHA-256 as an injective function of the hashed string: the digest stands
\* for the string it was computed from.
sha256(text) == [digest_of |-> text]

\* compute_intent_hash at process time now.
compute_intent_hash(stdin_payload, now) ==
    LET nonce == resolve_nonce(stdin_payload, now)
    IN [intent_hash |-> sha256(join(<<"|">>, preimage(stdin_payload, nonce))),
        nonce |-> nonce]

\* The proof requests of the model: flows in mixed case and absent, addresses
\* to strip and lower-case, values with and without the separator character,
\* nonce and requested_at_unix present and absent.
ProofRequests ==
    {[user_address |-> a, requested_at_unix |-> r,
      tx_context |-> [action_type |-> <<>>, amount |-> m, flow |-> f,
                      from_token |-> t, nonce |-> n, pool |-> <<>>,
                      price |-> <<>>, to_token |-> <<"a">>, token |-> <<>>]] :
        a \in {<<"A">>, <<" ", "b">>},
        r \in {<<>>, <<"7">>},
        m \in {<<"a">>, <<"a", "|", "a">>},
        f \in {FlowSwap, <<"S", "t", "a", "k", "e">>, FlowLimit, <<>>},
        t \in {<<"a">>, <<"b">>},
        n \in {<<>>, <<"a">>, <<"a", "|", "a">>}}

\* One call of compute_intent_hash; a run makes two.
CallIntent(stdin_payload, now) ==
    /\ Len(call) < 2
    /\ call' = Append(call, [stdin_payload |-> stdin_payload, now |-> now,
                             result |-> compute_intent_hash(stdin_payload, now)])
    /\ UNCHANGED <<store, fail_open, proc, counted, cfg, bp, stdout>>

\* ---------------------------------- bind_nullifier_commitment_from_public_inputs
max(a, b) == IF a >= b THEN a ELSE b

\* The extraction with the two indices exchanged.
bind_swapped(public_inputs, nullifier_idx, commitment_idx) ==
    LET required_len == max(nullifier_idx, commitment_idx) + 1
        nullifier == to_hex_felt(public_inputs[commitment_idx + 1])
        commitment == to_hex_felt(public_inputs[nullifier_idx + 1])
    IN IF Len(public_inputs) < required_len
       THEN [exc |-> "SystemExit", nullifier |-> <<>>, commitment |-> <<>>]
       ELSE IF nullifier.exc # "none"
            THEN [exc |-> nullifier.exc, nullifier |-> <<>>, commitment |-> <<>>]
       ELSE IF commitment.exc # "none"
            THEN [exc |-> commitment.exc, nullifier |-> <<>>, commitment |-> <<>>]
       ELSE [exc |-> "none", nullifier |-> nullifier.felt, commitment |-> commitment.felt]

\* The indices are those parse_index returns (list positions from 0); a list
\* shorter than max(index) + 1 is fatal, and so is a value to_hex_felt rejects.
bind_nullifier_commitment_from_public_inputs(public_inputs, nullifier_idx, commitment_idx) ==
    LET required_len == max(nullifier_idx, commitment_idx) + 1
        nullifier == to_hex_felt(public_inputs[nullifier_idx + 1])
        commitment == to_hex_felt(public_inputs[commitment_idx + 1])
    IN IF Len(public_inputs) < required_len
       THEN [exc |-> "SystemExit", nullifier |-> <<>>, commitment |-> <<>>]
       ELSE IF nullifier.exc # "none"
            THEN [exc |-> nullifier.exc, nullifier |-> <<>>, commitment |-> <<>>]
       ELSE IF commitment.exc # "none"
            THEN [exc |-> commitment.exc, nullifier |-> <<>>, commitment |-> <<>>]
       ELSE [exc |-> "none", nullifier |-> nullifier.felt, commitment |-> commitment.felt]

\* Public input strings: decimal, hexadecimal with an upper-case prefix,
\* padded and above the modulus, no number, blank.
FeltStrings ==
    {<<"5">>, <<"1", "0">>, <<"2", "0">>, <<"0", "X", "f", "f">>,
     <<" ", "3", "0", "0">>, <<"z">>, <<" ">>}

RECURSIVE ListsUpTo(_, _)
ListsUpTo(S, n) ==
    IF n = 0 THEN {<<>>}
    ELSE LET shorter == ListsUpTo(S, n - 1)
         IN shorter \cup {Append(l, x) : l \in {k \in shorter : Len(k) = n - 1}, x \in S}

\* One call of the extraction binding on a list of public inputs.
CallBind(public_inputs, nullifier_idx, commitment_idx) ==
    /\ call = <<>>
    /\ call' = <<[public_inputs |-> public_inputs,
                  nullifier_idx |-> nullifier_idx,
                  commitment_idx |-> commitment_idx,
                  result |-> bind_nullifier_commitment_from_public_inputs(
                                 public_inputs, nullifier_idx, commitment_idx)]>>
    /\ UNCHANGED <<store, fail_open, proc, counted, cfg, bp, stdout>>

\* ------------------------------------------------------- artifact reader
\* A JSON value that is not a list (null, a number, a string, an object).
NotAList == [present |-> TRUE, islist |-> FALSE, items |-> <<>>]

\* A key the object does not have.
NoEntry == [present |-> FALSE, islist |-> FALSE, items |-> <<>>]

ListEntry(items) == [present |-> TRUE, islist |-> TRUE, items |-> items]

\* The JSON null as an element of an array.
NullValue == [type |-> "null", n |-> 0, text |-> <<>>]

\* The arrays of the model: empty, an int, a padded decimal string, an int
\* above the prime with a hexadecimal string, a null, a word.
ItemLists ==
    {<<>>,
     <<IntValue(5)>>,
     <<StrValue(<<" ", "1", "0", " ">>)>>,
     <<IntValue(256), StrValue(<<"0", "x", "1">>)>>,
     <<NullValue>>,
     <<StrValue(<<"z">>)>>}

EntryValues == {NoEntry, NotAList} \cup {ListEntry(items) : items \in ItemLists}

NoEntries == [public_inputs |-> NoEntry, proof |-> NoEntry, calldata |-> NoEntry]

\* The files of the model: no file, a file that is not JSON, a JSON scalar,
\* a top-level array, an object with any values under the three keys.
ArtifactFiles ==
    {[kind |-> k, items |-> <<>>, entries |-> NoEntries] :
        k \in {"missing", "malformed", "scalar"}}
    \cup {[kind |-> "list", items |-> items, entries |-> NoEntries] : items \in ItemLists}
    \cup {[kind |-> "dict", items |-> <<>>, entries |-> e] :
            e \in [public_inputs : EntryValues, proof : EntryValues, calldata : EntryValues]}

\* The expected_key argument; "" stands for None and for the empty string.
ExpectedKeys == {"", "public_inputs", "proof", "calldata"}

has_key(obj, key) == key \in DOMAIN obj.entries /\ obj.entries[key].present

\* The proof key looked up before public_inputs.
resolve_keyProofFirst(obj, expected_key) ==
    IF expected_key # "" /\ has_key(obj, expected_key) THEN expected_key
    ELSE IF has_key(obj, "proof") THEN "proof"
    ELSE IF has_key(obj, "public_inputs") THEN "public_inputs"
    ELSE ""

\* The key of a JSON object that parse_json_array_file reads, "" when the
\* object has none of them.
resolve_key(obj, expected_key) ==
    IF expected_key # "" /\ has_key(obj, expected_key) THEN expected_key
    ELSE IF has_key(obj, "public_inputs") THEN "public_inputs"
    ELSE IF has_key(obj, "proof") THEN "proof"
    ELSE ""

ReadFailed(exc) == [exc |-> exc, key |-> "", felts |-> <<>>]

\* The list comprehension over the items: the first element to_hex_felt
\* refuses ends the call with its exception.
normalize_all(items, key) ==
    LET felts == [i \in 1..Len(items) |-> to_hex_felt_any(items[i])]
        bad == {i \in 1..Len(items) : felts[i].exc # "none"}
    IN IF bad = {}
       THEN [exc |-> "none", key |-> key,
             felts |-> [i \in 1..Len(items) |-> felts[i].felt]]
       ELSE ReadFailed(felts[CHOOSE i \in bad : \A j \in bad : i <= j].exc)

\* The reader without the test for an empty array.
parse_json_array_fileAcceptsEmpty(obj, expected_key) ==
    LET key == resolve_key(obj, expected_key)
        payload == IF obj.kind = "list" THEN ListEntry(obj.items)
                   ELSE IF key # "" THEN obj.entries[key] ELSE NoEntry
    IN IF obj.kind \in {"missing", "malformed", "scalar"} THEN ReadFailed("SystemExit")
       ELSE IF obj.kind = "dict" /\ key = "" THEN ReadFailed("SystemExit")
       ELSE IF ~payload.islist THEN ReadFailed("SystemExit")
       ELSE normalize_all(payload.items, key)

\* parse_json_array_file: the result carries the key that was read ("" for
\* a top-level array).
parse_json_array_file(obj, expected_key) ==
    LET key == resolve_key(obj, expected_key)
        payload == IF obj.kind = "list" THEN ListEntry(obj.items)
                   ELSE IF key # "" THEN obj.entries[key] ELSE NoEntry
    IN IF obj.kind \in {"missing", "malformed", "scalar"} THEN ReadFailed("SystemExit")
       ELSE IF obj.kind = "dict" /\ key = "" THEN ReadFailed("SystemExit")
       ELSE IF ~payload.islist \/ payload.items = <<>> THEN ReadFailed("SystemExit")
       ELSE normalize_all(payload.items, key)

\* One read of an artifact file.
CallRead(obj, expected_key) ==
    /\ call = <<>>
    /\ call' = <<[file |-> obj, expected_key |-> expected_key,
                  result |-> parse_json_array_file(obj, expected_key)]>>
    /\ UNCHANGED <<store, fail_open, proc, counted, cfg, bp, stdout>>

\* ------------------------------------- dynamic binding and the payload tail
\* The intent hashes and request times of the binding calls; the nonce and
\* the verifier name are fixed.
BindingIntentHashes == <<hex(1), hex(2)>>

BindingRequestedAts == <<<<>>, <<"7">>>>

BindingNonce == <<"n">>

BindingVerifier == <<"g">>

\* The seed of the dynamic binding: the four values joined with "|".
binding_seed(intent_hash, nonce, requested_at, verifier) ==
    join(<<"|">>, <<intent_hash, nonce, strip(requested_at), verifier>>)

NullifierSuffix == <<":", "n", "u", "l", "l", "i", "f", "i", "e", "r">>

CommitmentSuffix == <<":", "c", "o", "m", "m", "i", "t", "m", "e", "n", "t">>

\* Every string the model hashes for a binding, in a fixed order.
BindingPreimages ==
    [k \in 1..(2 * Len(BindingIntentHashes) * Len(BindingRequestedAts)) |->
        LET pair == (k - 1) \div 2
            h == BindingIntentHashes[(pair \div Len(BindingRequestedAts)) + 1]
            r == BindingRequestedAts[(pair % Len(BindingRequestedAts)) + 1]
        IN binding_seed(h, BindingNonce, r, BindingVerifier)
             \o (IF k % 2 = 1 THEN NullifierSuffix ELSE CommitmentSuffix)]

\* SHA-256 read as an integer, as an injective function of the hashed
\* string: equal strings get equal numbers and different strings different
\* ones.
sha256_int(text) ==
    LET hits == {k \in DOMAIN BindingPreimages : BindingPreimages[k] = text}
    IN CHOOSE k \in hits : \A other \in hits : k <= other

\* Both values derived from the seed with the same suffix.
make_dynamic_bindingOneSuffix(intent_hash, nonce, requested_at, verifier) ==
    LET raw == binding_seed(intent_hash, nonce, requested_at, verifier)
    IN [nullifier |-> hex(sha256_int(raw \o NullifierSuffix) % STARKNET_PRIME),
        commitment |-> hex(sha256_int(raw \o NullifierSuffix) % STARKNET_PRIME)]

\* make_dynamic_binding: the felts of the hashes of seed + ":nullifier" and
\* seed + ":commitment".
make_dynamic_binding(intent_hash, nonce, requested_at, verifier) ==
    LET raw == binding_seed(intent_hash, nonce, requested_at, verifier)
    IN [nullifier |-> hex(sha256_int(raw \o NullifierSuffix) % STARKNET_PRIME),
        commitment |-> hex(sha256_int(raw \o CommitmentSuffix) % STARKNET_PRIME)]

\* The list cut to the required length before the two slots are written.
apply_binding_truncating(public_inputs, nullifier, commitment, nullifier_idx, commitment_idx) ==
    LET required_len == max(nullifier_idx, commitment_idx) + 1
    IN [i \in 1..required_len |->
          IF i = commitment_idx + 1 THEN to_hex_felt(commitment).felt
          ELSE IF i = nullifier_idx + 1 THEN to_hex_felt(nullifier).felt
          ELSE IF i <= Len(public_inputs) THEN public_inputs[i]
          ELSE hex(0)]

\* apply_binding_to_public_inputs: "0x0" appended up to the required length,
\* then the nullifier slot written, then the commitment slot.
apply_binding_to_public_inputs(public_inputs, nullifier, commitment, nullifier_idx, commitment_idx) ==
    LET required_len == max(nullifier_idx, commitment_idx) + 1
    IN [i \in 1..max(Len(public_inputs), required_len) |->
          IF i = commitment_idx + 1 THEN to_hex_felt(commitment).felt
          ELSE IF i = nullifier_idx + 1 THEN to_hex_felt(nullifier).felt
          ELSE IF i <= Len(public_inputs) THEN public_inputs[i]
          ELSE hex(0)]

\* The last statements of build_payload: the binding is derived and written
\* into the public inputs (dynamic), or extracted from them; the returned
\* nullifier, commitment and public_inputs are those of the payload.
bind_payload(public_inputs, dynamic, nullifier_idx, commitment_idx, intent_hash, nonce, requested_at, verifier) ==
    IF dynamic
    THEN LET b == make_dynamic_binding(intent_hash, nonce, requested_at, verifier)
         IN [exc |-> "none", nullifier |-> b.nullifier, commitment |-> b.commitment,
             public_inputs |-> apply_binding_to_public_inputs(
                                   public_inputs, b.nullifier, b.commitment,
                                   nullifier_idx, commitment_idx)]
    ELSE LET b == bind_nullifier_commitment_from_public_inputs(
                      public_inputs, nullifier_idx, commitment_idx)
         IN [exc |-> b.exc, nullifier |-> b.nullifier, commitment |-> b.commitment,
             public_inputs |-> public_inputs]

\* Public inputs as parse_json_array_file returns them: normalized felts.
NormalFelts == {hex(0), hex(5), hex(10)}

\* One call of the payload tail.
CallBindPayload(public_inputs, dynamic, nullifier_idx, commitment_idx, h, r) ==
    /\ call = <<>>
    /\ call' = <<[public_inputs |-> public_inputs,
                  dynamic |-> dynamic,
                  nullifier_idx |-> nullifier_idx,
                  commitment_idx |-> commitment_idx,
                  intent_hash |-> BindingIntentHashes[h],
                  requested_at |-> BindingRequestedAts[r],
                  result |-> bind_payload(public_inputs, dynamic, nullifier_idx,
                                          commitment_idx, BindingIntentHashes[h],
                                          BindingNonce, BindingRequestedAts[r],
                                          BindingVerifier)]>>
    /\ UNCHANGED <<store, fail_open, proc, counted, cfg, bp, stdout>>

\* ------------------------------------------------- main and build_payload
\* The process that runs main() in bridge mode.
Bridge == 1

\* The settings build_payload reads from its environment: whether
\* GARAGA_PRECOMPUTED_PAYLOAD_PATH, GARAGA_PROVE_CMD, GARAGA_PROOF_PATH and
\* GARAGA_VK_PATH are non-empty, and the values bool_env gives for
\* GARAGA_ALLOW_PRECOMPUTED_PAYLOAD and GARAGA_DYNAMIC_BINDING.
Configs ==
    [precomputed : BOOLEAN, allow : BOOLEAN, prove_cmd : BOOLEAN,
     proof_path : BOOLEAN, vk : BOOLEAN, dynamic : BOOLEAN]

PayloadFields == {"nullifier", "commitment", "intent_hash", "proof", "public_inputs"}

\* fail() inside build_payload: SystemExit(1) ends main before its last line.
failBridge(why) == [bp EXCEPT !.stage = "exit1", !.err = why]

InitBridge ==
    /\ store \in InitialStores
    /\ fail_open \in BOOLEAN
    /\ proc = [p \in Procs |-> InitProc]
    /\ counted = {}
    /\ cfg \in Configs
    /\ bp = [InitBp EXCEPT !.stage = "allow"]
    /\ stdout = <<>>
    /\ call = <<>>

\* The precomputed payload path accepted whatever the allow flag says.
CheckAllowFlagIgnored ==
    /\ bp.stage = "allow"
    /\ bp' = [bp EXCEPT !.stage = "load"]
    /\ UNCHANGED <<store, fail_open, proc, counted, cfg, stdout, call>>

\* A precomputed payload path without the allow flag is fatal.
CheckAllowFlag ==
    /\ bp.stage = "allow"
    /\ bp' = IF cfg.precomputed /\ ~cfg.allow
             THEN failBridge("config")
             ELSE [bp EXCEPT !.stage = "load"]
    /\ UNCHANGED <<store, fail_open, proc, counted, cfg, stdout, call>>

\* maybe_load_precomputed_payload: None without a path; else the file is
\* parsed, and a file that is missing or malformed is fatal.
LoadPrecomputed(ok) ==
    /\ bp.stage = "load"
    /\ bp' = IF ~cfg.precomputed THEN [bp EXCEPT !.stage = "required"]
             ELSE IF ok
                  THEN [bp EXCEPT !.stage = "required", !.precomputed_payload = TRUE]
                  ELSE failBridge("artifact")
    /\ UNCHANGED <<store, fail_open, proc, counted, cfg, stdout, call>>

\* Without a precomputed payload the prover command and the proof path are
\* required; a configured prover command is run next.
CheckRequired ==
    /\ bp.stage = "required"
    /\ bp' = IF ~cfg.prove_cmd /\ ~bp.precomputed_payload THEN failBridge("config")
             ELSE IF ~cfg.proof_path /\ ~bp.precomputed_payload THEN failBridge("config")
             ELSE [bp EXCEPT !.stage = IF cfg.prove_cmd THEN "prover" ELSE "select"]
    /\ UNCHANGED <<store, fail_open, proc, counted, cfg, stdout, call>>

\* build_payload calls maybe_run_external_prover.
ProverStart(raw, url) ==
    /\ bp.stage = "prover"
    /\ proc[Bridge].pc = "idle"
    /\ StartBridge(Bridge, bool_env(raw, FALSE), url)

\* maybe_run_external_prover returns, or its SystemExit ends the process.
ProverReturned ==
    /\ bp.stage = "prover"
    /\ proc[Bridge].pc = "done"
    /\ bp' = IF proc[Bridge].outcome = "ok"
             THEN [bp EXCEPT !.stage = "select"]
             ELSE failBridge(proc[Bridge].outcome)
    /\ UNCHANGED <<store, fail_open, proc, counted, cfg, stdout, call>>

\* A loaded precomputed payload supplies proof and public_inputs; otherwise
\* the verification key path is required and the calldata is generated.
SelectProof ==
    /\ bp.stage = "select"
    /\ bp' = IF bp.precomputed_payload
             THEN [bp EXCEPT !.stage = "bind", !.proof = "precomputed",
                             !.public_inputs = "precomputed"]
             ELSE IF ~cfg.vk THEN failBridge("config")
                  ELSE [bp EXCEPT !.stage = "calldata"]
    /\ UNCHANGED <<store, fail_open, proc, counted, cfg, stdout, call>>

\* The calldata written to standard output as soon as it is generated.
GenerateProofStreamed(ok) ==
    /\ bp.stage = "calldata"
    /\ bp' = IF ok THEN [bp EXCEPT !.stage = "public_inputs", !.proof = "proof_path"]
             ELSE failBridge("artifact")
    /\ stdout' = IF ok THEN Append(stdout, [proof |-> "proof_path"]) ELSE stdout
    /\ UNCHANGED <<store, fail_open, proc, counted, cfg, call>>

\* generate_full_proof_with_hints: garaga calldata over the proof file; a
\* failed or timed-out command or an unusable output is fatal.
GenerateProof(ok) ==
    /\ bp.stage = "calldata"
    /\ bp' = IF ok THEN [bp EXCEPT !.stage = "public_inputs", !.proof = "proof_path"]
             ELSE failBridge("artifact")
    /\ UNCHANGED <<store, fail_open, proc, counted, cfg, stdout, call>>

\* resolve_public_inputs: from the public inputs file or the proof file.
ResolvePublicInputs(ok) ==
    /\ bp.stage = "public_inputs"
    /\ bp' = IF ok THEN [bp EXCEPT !.stage = "bind", !.public_inputs = "proof_path"]
             ELSE failBridge("artifact")
    /\ UNCHANGED <<store, fail_open, proc, counted, cfg, stdout, call>>

\* The intent hash, then the binding: derived and written into the public
\* inputs (dynamic), or extracted from them, which fails on a short list or
\* a value that is no field element.
Bind(ok) ==
    /\ bp.stage = "bind"
    /\ bp' = IF cfg.dynamic THEN [bp EXCEPT !.stage = "emit", !.binding = "dynamic"]
             ELSE IF ok THEN [bp EXCEPT !.stage = "emit", !.binding = "extracted"]
                  ELSE failBridge("binding")
    /\ UNCHANGED <<store, fail_open, proc, counted, cfg, stdout, call>>

\* The last line of main: the payload is serialised and written once.
Emit ==
    /\ bp.stage = "emit"
    /\ stdout' = Append(stdout, [nullifier |-> bp.binding,
                                 commitment |-> bp.binding,
                                 intent_hash |-> "sha256",
                                 proof |-> bp.proof,
                                 public_inputs |-> bp.public_inputs])
    /\ bp' = [bp EXCEPT !.stage = "exit0"]
    /\ UNCHANGED <<store, fail_open, proc, counted, cfg, call>>

\* ---------------------------------------------------------- run_prove_mode
\* Keys of a proof object as they are written in the file.
KeyA == <<"A">>

KeyBs == <<" ", "B", "s">>

KeyC == <<"c">>

\* _looks_like_groth16_proof_dict: the keys stripped and lowered hold one
\* name of each of the three groups.
_looks_like_groth16_proof_dict(value) ==
    LET keys == {lower(strip(key)) : key \in value.keys}
        has_a == keys \cap {<<"a">>, <<"p", "i", "_", "a">>, <<"a", "r">>} # {}
        has_b == keys \cap {<<"b">>, <<"p", "i", "_", "b">>, <<"b", "s">>} # {}
        has_c == keys \cap {<<"c">>, <<"p", "i", "_", "c">>, <<"k", "r", "s">>} # {}
    IN value.type = "dict" /\ has_a /\ has_b /\ has_c

\* JSON values under the "proof" key: none, a list of len elements, an
\* object with its keys, anything else.
ProofValue(type, len, keys) == [type |-> type, len |-> len, keys |-> keys]

KeySets == {{}, {KeyA, KeyC}, {KeyA, KeyBs, KeyC}}

ProofValues ==
    {ProofValue("absent", 0, {}), ProofValue("other", 0, {}),
     ProofValue("list", 0, {}), ProofValue("list", 1, {})}
    \cup {ProofValue("dict", 0, keys) : keys \in KeySets}

\* The proof files of the model: no file, no JSON, a scalar, a top-level
\* list, an object with its own keys and its "proof" value.
ProofFiles ==
    {[kind |-> k, type |-> "other", len |-> 0, keys |-> {}, proof |-> ProofValue("absent", 0, {})] :
        k \in {"missing", "malformed", "scalar"}}
    \cup {[kind |-> "list", type |-> "list", len |-> n, keys |-> {},
           proof |-> ProofValue("absent", 0, {})] : n \in 0..1}
    \cup {[kind |-> "dict", type |-> "dict", len |-> 0, keys |-> keys, proof |-> v] :
            keys \in KeySets, v \in ProofValues}

\* validate_proof_json_file: "none" when the format is accepted, else the
\* SystemExit of fail().
validate_proof_json_file(obj) ==
    IF obj.kind \in {"missing", "malformed"} THEN "SystemExit"
    ELSE IF obj.kind = "list" /\ obj.len > 0 THEN "none"
    ELSE IF obj.kind = "dict"
              /\ \/ obj.proof.type = "list" /\ obj.proof.len > 0
                 \/ _looks_like_groth16_proof_dict(obj)
                 \/ _looks_like_groth16_proof_dict(obj.proof)
         THEN "none"
    ELSE "SystemExit"

\* The settings run_prove_mode reads: whether GARAGA_REAL_PROVER_CMD,
\* GARAGA_PROOF_PATH and GARAGA_PUBLIC_INPUTS_PATH are non-empty.
ProveConfigs == [real_cmd : BOOLEAN, proof_path : BOOLEAN, public_inputs_path : BOOLEAN]

InitProve ==
    /\ store = Absent
    /\ fail_open = FALSE
    /\ proc = [p \in Procs |-> InitProc]
    /\ counted = {}
    /\ cfg \in ProveConfigs
    /\ bp = [InitBp EXCEPT !.stage = "real_cmd"]
    /\ stdout = <<>>
    /\ call = <<>>

\* resolve_real_prover_cmd and the test of its result: an empty command is
\* fatal, and so is a placeholder path without a local fallback.
ResolveRealProverCmd(found) ==
    /\ bp.stage = "real_cmd"
    /\ bp' = IF cfg.real_cmd /\ found THEN [bp EXCEPT !.stage = "prover"]
             ELSE failBridge("config")
    /\ UNCHANGED <<store, fail_open, proc, counted, cfg, stdout, call>>

\* run_shell(real_cmd) is called.
ProveStart(sk) ==
    /\ bp.stage = "prover"
    /\ proc[Bridge].pc = "idle"
    /\ StartProve(Bridge, sk)

\* run_shell has ended: a timeout or OSError was fatal inside it, a non-zero
\* return code is fatal here, status 0 goes on to the two paths, both of
\* which are required.
ProveReturned ==
    /\ bp.stage = "prover"
    /\ proc[Bridge].pc = "done"
    /\ bp' = IF proc[Bridge].outcome # "ok" THEN failBridge(proc[Bridge].outcome)
             ELSE IF ~cfg.proof_path \/ ~cfg.public_inputs_path THEN failBridge("config")
             ELSE [bp EXCEPT !.stage = "validate"]
    /\ UNCHANGED <<store, fail_open, proc, counted, cfg, stdout, call>>

\* The proof file taken as valid without being read.
ValidateProofSkipped(obj) ==
    /\ bp.stage = "validate"
    /\ call' = Append(call, obj)
    /\ bp' = [bp EXCEPT !.stage = "parse", !.proof = "proof_path"]
    /\ UNCHANGED <<store, fail_open, proc, counted, cfg, stdout>>

\* validate_proof_json_file(proof_path) on the file the command left.
ValidateProof(obj) ==
    /\ bp.stage = "validate"
    /\ call' = Append(call, obj)
    /\ bp' = IF validate_proof_json_file(obj) = "none"
             THEN [bp EXCEPT !.stage = "parse", !.proof = "proof_path"]
             ELSE failBridge("artifact")
    /\ UNCHANGED <<store, fail_open, proc, counted, cfg, stdout>>

\* parse_json_array_file(public_inputs_path, expected_key="public_inputs").
ParsePublicInputs(obj) ==
    /\ bp.stage = "parse"
    /\ call' = Append(call, obj)
    /\ bp' = IF parse_json_array_file(obj, "public_inputs").exc = "none"
             THEN [bp EXCEPT !.stage = "write", !.public_inputs = "proof_path"]
             ELSE failBridge("artifact")
    /\ UNCHANGED <<store, fail_open, proc, counted, cfg, stdout>>

\* The last line of run_prove_mode.
WriteOk ==
    /\ bp.stage = "write"
    /\ stdout' = <<[ok |-> TRUE]>>
    /\ bp' = [bp EXCEPT !.stage = "exit0"]
    /\ UNCHANGED <<store, fail_open, proc, counted, cfg, call>>

\* ----------------------------------------------------------- run_test_mode
\* The proof arrays garaga calldata can return for a proof file; a
\* precomputed payload file holds one fixed array.
ProofArrays == {"proof_1", "proof_2"}

PrecomputedProofArray == "proof_0"

\* build_payload returns to run_test_mode: the payload is kept together
\* with the state of the lease of that run, and the next call of
\* build_payload starts from the top with a new lease object.
PayloadReturned(array) ==
    /\ bp.stage = "emit"
    /\ Len(call) < 2
    /\ bp.proof = "precomputed" => array = PrecomputedProofArray
    /\ bp.proof = "proof_path" => array \in ProofArrays
    /\ call' = Append(call, [proof |-> array,
                             public_inputs |-> bp.public_inputs,
                             lease |-> proc[Bridge].lease,
                             pc |-> proc[Bridge].pc,
                             relCalls |-> proc[Bridge].relCalls])
    /\ bp' = IF Len(call) = 0 THEN [InitBp EXCEPT !.stage = "allow"]
             ELSE [bp EXCEPT !.stage = "compare"]
    /\ proc' = IF Len(call) = 0 THEN [proc EXCEPT ![Bridge] = InitProc] ELSE proc
    /\ UNCHANGED <<store, fail_open, counted, cfg, stdout>>

\* The report written whatever the two proofs are.
CompareProofsUnchecked ==
    /\ bp.stage = "compare"
    /\ stdout' = <<[ok |-> TRUE, proof_a |-> call[1].proof, proof_b |-> call[2].proof]>>
    /\ bp' = [bp EXCEPT !.stage = "exit0"]
    /\ UNCHANGED <<store, fail_open, proc, counted, cfg, call>>

\* The end of run_test_mode: identical proof arrays are fatal; otherwise the
\* report with the lengths and digests of the two proofs is written.
CompareProofs ==
    /\ bp.stage = "compare"
    /\ IF call[1].proof = call[2].proof
       THEN bp' = failBridge("static_proof") /\ UNCHANGED stdout
       ELSE /\ stdout' = <<[ok |-> TRUE, proof_a |-> call[1].proof,
                            proof_b |-> call[2].proof]>>
            /\ bp' = [bp EXCEPT !.stage = "exit0"]
    /\ UNCHANGED <<store, fail_open, proc, counted, cfg, call>>

\* ---------------------------------------------------------- specifications
\* Spec: the invocations of the client processes with every reply the store
\* client can give.
Next ==
    \E p \in Clients :
        \/ \E sk \in QueueSkipFlags, url \in BOOLEAN : StartBridge(p, sk, url)
        \/ \E sk \in QueueSkipFlags : StartProve(p, sk)
        \/ \E reply \in RedisReplies :
              \/ Incr(p, reply)
              \/ Expire(p, reply)
              \/ Undo(p, reply)
              \/ Decr(p, reply)
              \/ RelDecr(p, reply)
              \/ RelDel(p, reply)
        \/ Sleep(p)
        \/ RunFail(p)
        \/ RunStart(p)
        \/ \E res \in ProverResults : ProverEnd(p, res)

Spec == Init /\ [][Next]_vars

\* The steps of a started client process: each one is a store command that
\* returns within its own timeout, a sleep that ends, or the prover command
\* that ends or is killed at its timeout.
ClientStep(p) ==
    \/ \E reply \in RedisReplies :
          \/ Incr(p, reply)
          \/ Expire(p, reply)
          \/ Undo(p, reply)
          \/ Decr(p, reply)
          \/ RelDecr(p, reply)
          \/ RelDel(p, reply)
    \/ Sleep(p)
    \/ RunFail(p)
    \/ RunStart(p)
    \/ \E res \in ProverResults : ProverEnd(p, res)

\* SpecReachable: all the processes on a reachable store: every command is
\* answered, and the key does not expire.  run_prove_mode never reads the
\* queue-bypass flag, which is left unset for it.
NextReachable ==
    \E p \in Procs :
        \/ \E sk \in QueueSkipFlags : StartBridge(p, sk, TRUE)
        \/ StartProve(p, FALSE)
        \/ Incr(p, "ok")
        \/ Expire(p, "ok")
        \/ Decr(p, "ok")
        \/ RelDecr(p, "ok")
        \/ RelDel(p, "ok")
        \/ Sleep(p)
        \/ RunFail(p)
        \/ RunStart(p)
        \/ \E res \in ProverResults : ProverEnd(p, res)

SpecReachable == InitReachable /\ [][NextReachable]_vars

\* SpecCrash: bridge processes on a reachable store whose key expires, where
\* a holder can be killed.  Time passes, and a started process takes its
\* next step; nothing obliges a new invocation to start.
ProcStep(p) ==
    \/ Incr(p, "ok")
    \/ Expire(p, "ok")
    \/ Decr(p, "ok")
    \/ RelDecr(p, "ok")
    \/ RelDel(p, "ok")
    \/ Sleep(p)
    \/ RunStart(p)
    \/ \E res \in ProverResults : ProverEnd(p, res)

NextCrash ==
    \/ \E p \in Procs : StartBridge(p, FALSE, TRUE) \/ ProcStep(p) \/ Crash(p)
    \/ Tick

SpecCrash ==
    /\ InitReachable
    /\ [][NextCrash]_vars
    /\ WF_vars(Tick)
    /\ \A p \in Procs : WF_vars(ProcStep(p))

\* SpecLease: lease objects as acquire returns them, and a caller of release().
InitLease ==
    /\ fail_open \in BOOLEAN
    /\ NoBridge
    /\ \E held \in SUBSET Procs :
          /\ counted = held
          /\ proc = [p \in Procs |->
                       IF p \in held
                       THEN [ReturnAcquired(InitProc) EXCEPT !.pending = 1, !.result = "exit0"]
                       ELSE [ReturnUnacquired(InitProc) EXCEPT !.result = "exit0"]]
          /\ store = IF held = {} THEN Absent
                     ELSE [present |-> TRUE, val |-> Cardinality(held), ttl |-> SlotTTL]

NextLease ==
    \E p \in Procs : CallRelease(p) \/ RelDecr(p, "ok") \/ RelDel(p, "ok")

SpecLease == InitLease /\ [][NextLease]_vars

\* SpecBridge: one run of main() in bridge mode under every configuration,
\* with every reply of the store and every outcome of the prover command
\* and of the artifact files.
NextBridge ==
    \/ CheckAllowFlag
    \/ \E ok \in BOOLEAN : LoadPrecomputed(ok)
    \/ CheckRequired
    \/ \E raw \in QueueSkipValues, url \in BOOLEAN : ProverStart(raw, url)
    \/ \E reply \in RedisReplies :
          \/ Incr(Bridge, reply)
          \/ Expire(Bridge, reply)
          \/ Undo(Bridge, reply)
          \/ Decr(Bridge, reply)
          \/ RelDecr(Bridge, reply)
          \/ RelDel(Bridge, reply)
    \/ Sleep(Bridge)
    \/ RunFail(Bridge)
    \/ RunStart(Bridge)
    \/ \E res \in ProverResults : ProverEnd(Bridge, res)
    \/ ProverReturned
    \/ SelectProof
    \/ \E ok \in BOOLEAN : GenerateProof(ok)
    \/ \E ok \in BOOLEAN : ResolvePublicInputs(ok)
    \/ \E ok \in BOOLEAN : Bind(ok)
    \/ Emit

SpecBridge == InitBridge /\ [][NextBridge]_vars

\* ------------------------------------------------------------- properties
\* The queue and the bridge at rest, and no call made yet: the state in
\* which the pure functions are called.
InitPure ==
    /\ store = Absent
    /\ fail_open = FALSE
    /\ proc = [p \in Procs |-> InitProc]
    /\ counted = {}
    /\ NoBridge

\* SpecFelt: one call of to_hex_felt on every input of the model, and the
\* normalization of its result.
NextFelt ==
    /\ call = <<>>
    /\ \E value \in ValidFeltInputs \cup InvalidFeltInputs : CallNormalize(value)

SpecFelt == InitPure /\ [][NextFelt]_vars

\* SpecProgress: the processes on a reachable store whose key does not
\* expire; every store command is answered, every started process keeps
\* taking its steps and every prover command ends.  New invocations may
\* stop arriving.
NextProgress ==
    \E p \in Procs : StartBridge(p, FALSE, TRUE) \/ ProcStep(p)

SpecProgress ==
    /\ InitReachable
    /\ [][NextProgress]_vars
    /\ \A p \in Procs : WF_vars(ProcStep(p))

\* SpecTest: main() in self-test mode: build_payload twice, then the
\* comparison of the two proofs.
NextTest ==
    \/ CheckAllowFlag
    \/ \E ok \in BOOLEAN : LoadPrecomputed(ok)
    \/ CheckRequired
    \/ \E raw \in QueueSkipValues, url \in BOOLEAN : ProverStart(raw, url)
    \/ \E reply \in RedisReplies :
          \/ Incr(Bridge, reply)
          \/ Expire(Bridge, reply)
          \/ Undo(Bridge, reply)
          \/ Decr(Bridge, reply)
          \/ RelDecr(Bridge, reply)
          \/ RelDel(Bridge, reply)
    \/ Sleep(Bridge)
    \/ RunFail(Bridge)
    \/ RunStart(Bridge)
    \/ \E res \in ProverResults : ProverEnd(Bridge, res)
    \/ ProverReturned
    \/ SelectProof
    \/ \E ok \in BOOLEAN : GenerateProof(ok)
    \/ \E ok \in BOOLEAN : ResolvePublicInputs(ok)
    \/ \E ok \in BOOLEAN : Bind(ok)
    \/ \E array \in ProofArrays \cup {PrecomputedProofArray} : PayloadReturned(array)
    \/ CompareProofs

SpecTest == InitBridge /\ [][NextTest]_vars

\* SpecProve: main() in prove mode under every setting, with every end of
\* the command and every proof and public inputs file of the model.
NextProve ==
    \/ \E found \in BOOLEAN : ResolveRealProverCmd(found)
    \/ \E sk \in QueueSkipFlags : ProveStart(sk)
    \/ RunFail(Bridge)
    \/ RunStart(Bridge)
    \/ \E res \in ProverResults : ProverEnd(Bridge, res)
    \/ ProveReturned
    \/ \E obj \in ProofFiles : ValidateProof(obj)
    \/ \E obj \in ArtifactFiles : ParsePublicInputs(obj)
    \/ WriteOk

SpecProve == InitProve /\ [][NextProve]_vars

\* SpecReader: one read of every file of the model with every expected key.
NextReader ==
    /\ call = <<>>
    /\ \E obj \in ArtifactFiles, expected_key \in ExpectedKeys : CallRead(obj, expected_key)

SpecReader == InitPure /\ [][NextReader]_vars

\* SpecPayload: one call of the payload tail for every list of normalized
\* public inputs up to MaxInputs values, both kinds of binding, every pair
\* of indices up to MaxIndex and every seed of the model.
NextPayload ==
    /\ call = <<>>
    /\ \E public_inputs \in ListsUpTo(NormalFelts, MaxInputs), dynamic \in BOOLEAN,
          nullifier_idx \in 0..MaxIndex, commitment_idx \in 0..MaxIndex,
          h \in DOMAIN BindingIntentHashes, r \in DOMAIN BindingRequestedAts :
           CallBindPayload(public_inputs, dynamic, nullifier_idx, commitment_idx, h, r)

SpecPayload == InitPure /\ [][NextPayload]_vars

\* SpecBinding: one call of the extraction binding for every list of public
\* inputs up to MaxInputs values and every pair of indices up to MaxIndex.
NextBinding ==
    /\ call = <<>>
    /\ \E public_inputs \in ListsUpTo(FeltStrings, MaxInputs),
          nullifier_idx \in 0..MaxIndex, commitment_idx \in 0..MaxIndex :
           CallBind(public_inputs, nullifier_idx, commitment_idx)

SpecBinding == InitPure /\ [][NextBinding]_vars

\* SpecIntent: two calls of compute_intent_hash, each on any request of the
\* model at any reading of the clock.
NextIntent ==
    /\ Len(call) < 2
    /\ \E stdin_payload \in ProofRequests, now \in 1..MaxClock :
          CallIntent(stdin_payload, now)

SpecIntent == InitPure /\ [][NextIntent]_vars

\* A lease that acquire returned as acquired and whose release() has not
\* been called yet.
Held(p) == proc[p].lease = "acquired" /\ proc[p].pc \in {"run", "running"}

InAcquire(p) == proc[p].pc \in {"incr", "expire", "undo", "decr", "sleep"}

InRelease(p) == proc[p].pc \in {"rel_decr", "rel_del"}

\* C1: on a reachable store without expiry, the number of leases acquired and
\* not yet released never exceeds max_concurrent.
CapacityBound == Cardinality({p \in Procs : Held(p)}) <= MaxConcurrent

\* C2: release() is executed exactly once for every acquired lease before the
\* invocation ends, whichever way the guarded command ends (status 0,
\* non-zero status, timeout, failure to start); never before the command
\* has ended and never twice.
ReleaseExactlyOnce ==
    \A p \in Procs :
        proc[p].lease = "acquired" =>
            /\ proc[p].relCalls <= 1
            /\ proc[p].pc \in {"run", "running"} => proc[p].relCalls = 0
            /\ proc[p].pc = "done" => proc[p].relCalls = 1 /\ proc[p].result # "none"

ReleasedAfterTimeout ==
    \E p \in Procs :
        /\ proc[p].pc = "done"
        /\ proc[p].lease = "acquired"
        /\ proc[p].result = "timeout"
        /\ proc[p].relCalls = 1

\* C3: a store error during release() is not propagated: a run whose prover
\* command exited with status 0 ends successfully all the same.
ReleaseErrorsSwallowed ==
    \A p \in Procs :
        (proc[p].pc = "done" /\ proc[p].fault = "release" /\ proc[p].result = "exit0")
            => proc[p].outcome = "ok"

\* C4: with fail-open, a missing store address or a failed store command of
\* acquire never ends the process; acquire returns an unacquired lease, the
\* prover command is invoked, and release() issues no store command.
FailOpenDegrades ==
    fail_open =>
        \A p \in Procs :
            /\ proc[p].outcome \notin {"fatal_config", "fatal_store"}
            /\ proc[p].lease = "unacquired" => ~InRelease(p) /\ proc[p].relOps = 0
            /\ proc[p].fault = "acquire" =>
                  /\ proc[p].pc \in {"undo", "run", "running", "done"}
                  /\ proc[p].pc # "undo" => proc[p].lease = "unacquired"
                  /\ proc[p].pc = "done" =>
                        /\ proc[p].result # "none"
                        /\ proc[p].outcome = IF proc[p].result = "exit0"
                                             THEN "ok" ELSE "fatal_prover"

DegradedRunSucceeded ==
    \E p \in Procs :
        /\ fail_open
        /\ proc[p].fault = "acquire"
        /\ proc[p].lease = "unacquired"
        /\ proc[p].pc = "done"
        /\ proc[p].relCalls = 1
        /\ proc[p].outcome = "ok"

\* C5: in strict mode acquire never returns an unacquired lease.
StrictNeverUnacquired ==
    ~fail_open => \A p \in Procs : proc[p].lease # "unacquired"

\* C6: once no process is inside acquire and every acquired lease has been
\* released, the key is absent or holds a value <= 0.
Quiescent ==
    \A p \in Procs :
        /\ ~InAcquire(p)
        /\ proc[p].lease = "acquired" => proc[p].pc = "done"

QuiescentCounter == Quiescent => (~store.present \/ store.val <= 0)

QuiescentAfterContention ==
    /\ Quiescent
    /\ \E p \in Procs : proc[p].lease = "acquired" /\ proc[p].relOps > 0
    /\ \E p \in Procs : proc[p].outcome = "fatal_queue_timeout"

\* C7: release() is idempotent: on a lease that was never acquired, and on
\* its second and later calls, it issues no store command.
ReleaseIdempotent ==
    \A p \in Procs :
        /\ proc[p].lease = "unacquired" => ~InRelease(p) /\ proc[p].relOps = 0
        /\ proc[p].relCalls >= 2 => ~InRelease(p)

\* C8: at most max_concurrent prover commands run at a time among the
\* processes whose own environment leaves the bypass flag unset.
ProverBound ==
    Cardinality({p \in Procs : proc[p].pc = "running" /\ ~proc[p].skip}) <= MaxConcurrent

\* C9: the slot of a holder that crashed is eventually reclaimed: the key
\* that counts its increment is deleted or expires.
CrashedSlotReclaimed ==
    \A p \in Procs : (proc[p].pc = "crashed" /\ p \in counted) ~> (p \notin counted)

LoopRank(p) ==
    CASE proc[p].pc = "incr" -> 0
      [] proc[p].pc = "expire" -> 1
      [] proc[p].pc = "undo" -> 2
      [] proc[p].pc = "decr" -> 2
      [] proc[p].pc = "sleep" -> 3
      [] OTHER -> 4

AcquireRank(p) == 4 * proc[p].polls + LoopRank(p)

\* C11: acquire does not poll forever. The process never sleeps once the
\* deadline has passed (the next rejected attempt ends in the queue timeout),
\* a process inside acquire always has a next step, and every step that
\* stays inside acquire moves strictly forward in a bounded order, so every
\* call ends: with a lease, acquired or not, or with a fatal error.
AcquireTerminates ==
    /\ [](\A p \in Procs :
            /\ proc[p].polls <= QueueTimeoutPolls
            /\ proc[p].pc = "sleep" => proc[p].polls < QueueTimeoutPolls
            /\ InAcquire(p) => ENABLED ClientStep(p))
    /\ [][\A p \in Procs :
            (InAcquire(p) /\ proc'[p] # proc[p]) =>
                IF InAcquire(p)'
                THEN AcquireRank(p)' > AcquireRank(p)
                ELSE proc'[p].pc \in {"run", "done", "crashed"}]_vars

TimedOutWhileSlotsHeld ==
    \E p \in Procs :
        /\ proc[p].outcome = "fatal_queue_timeout"
        /\ proc[p].polls = QueueTimeoutPolls
        /\ store.present
        /\ store.val >= MaxConcurrent
        /\ p \notin counted

\* C12: with an acquired lease the prover command is started only after
\* acquire has returned, and release (its DECR included) begins only after
\* the command has ended: while the command runs, acquire is over and no
\* release call or release store command has been made.
GuardedOrdering ==
    /\ [](\A p \in Procs :
            /\ InAcquire(p) => (proc[p].lease = "none" /\ proc[p].result = "none")
            /\ (proc[p].pc = "running" /\ proc[p].mode = "bridge" /\ ~proc[p].skip) =>
                   proc[p].lease # "none"
            /\ (proc[p].pc = "running" /\ proc[p].lease = "acquired") =>
                   /\ proc[p].result = "none"
                   /\ proc[p].relCalls = 0
                   /\ proc[p].relOps = 0
            /\ InRelease(p) => (proc[p].lease = "acquired" /\ proc[p].result # "none"))
    /\ [][\A p \in Procs :
            proc'[p].relOps > proc[p].relOps =>
                (InRelease(p) /\ proc[p].result # "none")]_vars

ReleasingAfterKilledCommand ==
    \E p \in Procs :
        /\ proc[p].pc = "rel_decr"
        /\ proc[p].lease = "acquired"
        /\ proc[p].result = "timeout"
        /\ proc[p].relOps = 0

\* C13: the child of a bridge process always reads the queue-bypass flag as
\* set, and a bridge process whose own flag is set is never at a store
\* command: it is not in acquire or release, holds no lease object, and has
\* issued no increment, decrement or delete.
QueueBypass ==
    /\ [](\A p \in Procs :
            /\ (proc[p].mode = "bridge" /\ proc[p].pc \in {"running", "crashed"}) =>
                   proc[p].child = "bypass"
            /\ (proc[p].mode = "bridge" /\ proc[p].child # "none") =>
                   proc[p].child = "bypass"
            /\ (proc[p].mode = "bridge" /\ proc[p].skip) =>
                   /\ ~InAcquire(p)
                   /\ ~InRelease(p)
                   /\ proc[p].lease = "none"
                   /\ proc[p].pending = 0
                   /\ proc[p].relCalls = 0
                   /\ proc[p].relOps = 0
                   /\ proc[p].fault = "none")
    /\ [][\A p \in Procs :
            (/\ proc[p].mode = "bridge"
             /\ proc[p].skip
             /\ proc[p].pc \in {"run", "running"}
             /\ proc'[p] # proc[p]) => (store' = store /\ counted' = counted)]_vars

BypassedRunBesideHeldSlot ==
    \E p \in Procs :
        /\ proc[p].mode = "bridge"
        /\ proc[p].skip
        /\ proc[p].child = "bypass"
        /\ proc[p].outcome = "ok"
        /\ store.present
        /\ store.val >= 1

\* C14: standard output holds nothing, or exactly one payload with all five
\* fields filled and written by a run that ends with status 0; a run in
\* which any step failed has written nothing and ends with status 1.
AllOrNothing ==
    /\ Len(stdout) <= 1
    /\ \A i \in 1..Len(stdout) :
          /\ DOMAIN stdout[i] = PayloadFields
          /\ \A f \in PayloadFields : stdout[i][f] # "none"
    /\ stdout # <<>> =>
          /\ bp.stage = "exit0"
          /\ bp.err = "none"
          /\ proc[Bridge].outcome \in {"none", "ok"}
    /\ bp.stage = "exit0" => Len(stdout) = 1
    /\ bp.err # "none" => (bp.stage = "exit1" /\ stdout = <<>>)
    /\ proc[Bridge].outcome \notin {"none", "ok"} =>
          (bp.stage \in {"prover", "exit1"} /\ stdout = <<>>)

BindingFailedAfterProverSucceeded ==
    /\ bp.stage = "exit1"
    /\ bp.err = "binding"
    /\ proc[Bridge].outcome = "ok"
    /\ stdout = <<>>

\* C15: a payload is emitted only when the prover command was run in this
\* run and exited with status 0, or a precomputed payload path is configured
\* with the allow flag set; a precomputed path without the allow flag ends
\* the run before the prover is invoked, and a run with neither a prover
\* command nor an allowed precomputed payload emits nothing.
SourceOfProof ==
    /\ stdout # <<>> =>
          \/ cfg.prove_cmd /\ proc[Bridge].result = "exit0"
          \/ cfg.precomputed /\ cfg.allow
    /\ (cfg.precomputed /\ ~cfg.allow) =>
          /\ proc[Bridge].pc = "idle"
          /\ stdout = <<>>
          /\ bp.stage \in {"allow", "exit1"}
    /\ (~cfg.prove_cmd /\ ~(cfg.precomputed /\ cfg.allow)) =>
          /\ proc[Bridge].pc = "idle"
          /\ stdout = <<>>
          /\ bp.stage \in {"allow", "load", "required", "exit1"}

PrecomputedRefusedWithoutAllow ==
    /\ bp.stage = "exit1"
    /\ bp.err = "config"
    /\ cfg.precomputed
    /\ ~cfg.allow
    /\ cfg.prove_cmd
    /\ proc[Bridge].pc = "idle"

\* C16: no run invokes the prover command, takes a queue slot and emits the
\* proof and public inputs of the precomputed payload.
StrategiesExclusive ==
    \A i \in 1..Len(stdout) :
        ~ /\ stdout[i].proof = "precomputed"
          /\ stdout[i].public_inputs = "precomputed"
          /\ proc[Bridge].result = "exit0"
          /\ proc[Bridge].lease = "acquired"

\* C17: two calls with the same request return the same intent hash and the
\* same nonce, for every request.
IntentDeterministic ==
    \A i, j \in 1..Len(call) :
        call[i].stdin_payload = call[j].stdin_payload => call[i].result = call[j].result

CarriesNonce(stdin_payload) ==
    \/ strip(stdin_payload.tx_context.nonce) # <<>>
    \/ strip(stdin_payload.requested_at_unix) # <<>>

\* C17, amended: two calls with the same request return the same intent hash
\* and nonce when the request carries a non-blank tx_context.nonce or
\* requested_at_unix, whatever the clock reads at each call.
IntentDeterministicWithNonce ==
    \A i, j \in 1..Len(call) :
        (/\ call[i].stdin_payload = call[j].stdin_payload
         /\ CarriesNonce(call[i].stdin_payload)) => call[i].result = call[j].result

SameRequestAtTwoTimes ==
    /\ Len(call) = 2
    /\ call[1].stdin_payload = call[2].stdin_payload
    /\ call[1].now # call[2].now
    /\ call[1].stdin_payload.tx_context.nonce = <<>>
    /\ call[1].stdin_payload.requested_at_unix # <<>>
    /\ call[1].result = call[2].result

\* C18: a swap request (with a nonce of its own, so that the clock plays no
\* part) and the request that differs from it only in the flow, stake
\* instead of swap, have different intent hashes.
FlowSeparation ==
    \A i, j \in 1..Len(call) :
        (/\ flow_of(call[i].stdin_payload) = FlowSwap
         /\ flow_of(call[j].stdin_payload) = FlowStake
         /\ CarriesNonce(call[i].stdin_payload)
         /\ call[j].stdin_payload =
               [call[i].stdin_payload EXCEPT
                   !.tx_context.flow = call[j].stdin_payload.tx_context.flow])
        => call[i].result.intent_hash # call[j].result.intent_hash

\* C19: for one recognized flow, two requests whose ordered preimage fields
\* differ in some field have different intent hashes.
FieldSeparation ==
    \A i, j \in 1..Len(call) :
        (/\ flow_of(call[i].stdin_payload) = flow_of(call[j].stdin_payload)
         /\ flow_of(call[i].stdin_payload) \in {FlowSwap, FlowLimit, FlowStake}
         /\ preimage(call[i].stdin_payload, call[i].result.nonce) #
               preimage(call[j].stdin_payload, call[j].result.nonce))
        => call[i].result.intent_hash # call[j].result.intent_hash

\* The felt each public input string of the model denotes, written out by
\* hand: decimal or hexadecimal value, reduced modulo the field prime, in
\* lower-case hexadecimal; <<>> for a string that is no number.
NormalizedFelt ==
    [v \in FeltStrings |->
        CASE v = <<"5">> -> <<"0", "x", "5">>
          [] v = <<"1", "0">> -> <<"0", "x", "a">>
          [] v = <<"2", "0">> -> <<"0", "x", "1", "4">>
          [] v = <<"0", "X", "f", "f">> -> <<"0", "x", "4">>
          [] v = <<" ", "3", "0", "0">> -> <<"0", "x", "3", "1">>
          [] OTHER -> <<>>]

\* C20: on a list longer than max(nullifier_idx, commitment_idx) whose two
\* indexed values are numbers, the extraction returns exactly their
\* normalized felts, nullifier first; on a list of length <= the larger
\* index it fails and returns no binding.
ExtractionBinding ==
    \A i \in 1..Len(call) :
        LET c == call[i]
            top == max(c.nullifier_idx, c.commitment_idx)
        IN /\ Len(c.public_inputs) <= top =>
                 (c.result.exc = "SystemExit" /\ c.result.nullifier = <<>>
                  /\ c.result.commitment = <<>>)
           /\ Len(c.public_inputs) > top =>
                 LET n == NormalizedFelt[c.public_inputs[c.nullifier_idx + 1]]
                     m == NormalizedFelt[c.public_inputs[c.commitment_idx + 1]]
                 IN IF n # <<>> /\ m # <<>>
                    THEN /\ c.result.exc = "none"
                         /\ c.result.nullifier = n
                         /\ c.result.commitment = m
                    ELSE c.result.exc # "none"

ExtractedFiveAndTen ==
    /\ call # <<>>
    /\ call[1].public_inputs = <<<<"5">>, <<"1", "0">>, <<"2", "0">>>>
    /\ call[1].nullifier_idx = 0
    /\ call[1].commitment_idx = 1
    /\ call[1].result.exc = "none"
    /\ call[1].result.nullifier = <<"0", "x", "5">>
    /\ call[1].result.commitment = <<"0", "x", "a">>

\* C22: for every decimal string, 0x-prefixed hexadecimal string and native
\* integer, negative values and values >= P included, to_hex_felt succeeds,
\* its result is 0x followed by the hexadecimal digits of an integer in
\* [0, P), and normalizing the result returns the same string.
FeltNormalized ==
    \A i \in 1..Len(call) :
        call[i].value \in ValidFeltInputs =>
            /\ call[i].result.exc = "none"
            /\ Len(call[i].result.felt) >= 3
            /\ SubSeq(call[i].result.felt, 1, 2) = <<"0", "x">>
            /\ ParseInt(SubSeq(call[i].result.felt, 3, Len(call[i].result.felt)), 16)
                  \in 0..(STARKNET_PRIME - 1)
            /\ call[i].again = call[i].result

NegativeDecimalNormalized ==
    /\ call # <<>>
    /\ call[1].value = StrValue(<<"-", "5">>)
    /\ call[1].result.felt = <<"0", "x", "f", "6">>
    /\ call[1].again.felt = <<"0", "x", "f", "6">>

\* C21: under dynamic binding the emitted public inputs have length
\* max(len(inputs), max(nullifier_idx, commitment_idx) + 1); outside the two
\* slots every position of the input keeps its value and every added
\* position holds 0x0.
ApplyBindingFrame ==
    \A k \in 1..Len(call) :
        call[k].dynamic =>
            LET in == call[k].public_inputs
                out == call[k].result.public_inputs
                slots == {call[k].nullifier_idx + 1, call[k].commitment_idx + 1}
            IN /\ call[k].result.exc = "none"
               /\ Len(out) = max(Len(in), max(call[k].nullifier_idx,
                                              call[k].commitment_idx) + 1)
               /\ \A i \in (1..Len(out)) \ slots :
                     IF i <= Len(in) THEN out[i] = in[i] ELSE out[i] = <<"0", "x", "0">>

PaddedBetweenSlots ==
    /\ call # <<>>
    /\ call[1].dynamic
    /\ call[1].public_inputs = <<<<"0", "x", "5">>>>
    /\ call[1].nullifier_idx = 0
    /\ call[1].commitment_idx = 2
    /\ Len(call[1].result.public_inputs) = 3
    /\ call[1].result.public_inputs[2] = <<"0", "x", "0">>

\* C27: the dynamic binding never returns a nullifier equal to the
\* commitment.
DomainSeparation ==
    \A k \in 1..Len(call) :
        call[k].dynamic => call[k].result.nullifier # call[k].result.commitment

DynamicBindingWithRequestTime ==
    /\ call # <<>>
    /\ call[1].dynamic
    /\ call[1].requested_at = <<"7">>
    /\ call[1].result.nullifier # <<>>
    /\ call[1].result.commitment # <<>>
    /\ call[1].nullifier_idx # call[1].commitment_idx

\* C28: in every payload, public_inputs[nullifier_idx] is the nullifier and
\* public_inputs[commitment_idx] is the commitment, for both kinds of
\* binding and every pair of indices.
PayloadSelfConsistent ==
    \A k \in 1..Len(call) :
        call[k].result.exc = "none" =>
            /\ call[k].result.public_inputs[call[k].nullifier_idx + 1] = call[k].result.nullifier
            /\ call[k].result.public_inputs[call[k].commitment_idx + 1] = call[k].result.commitment

\* A non-empty list of canonical felts: 0x followed by the hexadecimal
\* digits of a number below the prime.
CanonicalFelts(felts) ==
    /\ felts # <<>>
    /\ \A i \in 1..Len(felts) :
          /\ Len(felts[i]) >= 3
          /\ SubSeq(felts[i], 1, 2) = <<"0", "x">>
          /\ ParseInt(SubSeq(felts[i], 3, Len(felts[i])), 16) \in 0..(STARKNET_PRIME - 1)
          /\ hex(ParseInt(SubSeq(felts[i], 3, Len(felts[i])), 16)) = felts[i]

UsableList(entry) == entry.present /\ entry.islist /\ entry.items # <<>>

\* C23: the reader fails for a missing file, malformed JSON, a JSON scalar,
\* an empty top-level array, an object with none of the keys and an object
\* none of whose candidate values is a non-empty array; every successful
\* read returns a non-empty list of canonical felts.
ReaderValidated ==
    \A k \in 1..Len(call) :
        LET f == call[k].file
            res == call[k].result
            candidates == {key \in {call[k].expected_key, "public_inputs", "proof"} :
                              key # "" /\ f.entries[key].present}
        IN /\ f.kind \in {"missing", "malformed", "scalar"} => res.exc = "SystemExit"
           /\ (f.kind = "list" /\ f.items = <<>>) => res.exc = "SystemExit"
           /\ (f.kind = "dict" /\ candidates = {}) => res.exc = "SystemExit"
           /\ (f.kind = "dict" /\ \A key \in candidates : ~UsableList(f.entries[key]))
                 => res.exc = "SystemExit"
           /\ res.exc # "none" => res.felts = <<>>
           /\ res.exc = "none" => CanonicalFelts(res.felts)

ReadListAboveThePrime ==
    /\ call # <<>>
    /\ call[1].file.kind = "list"
    /\ call[1].file.items = <<IntValue(256), StrValue(<<"0", "x", "1">>)>>
    /\ call[1].result.exc = "none"
    /\ call[1].result.felts = <<<<"0", "x", "5">>, <<"0", "x", "1">>>>

\* C24: for an object the reader reads expected_key when the object has it,
\* else public_inputs, else proof; the value under that key alone decides
\* the read: a non-empty array of numbers is returned normalized, anything
\* else fails although a later key would do.
KeyResolutionOrder ==
    \A k \in 1..Len(call) :
        call[k].file.kind = "dict" =>
            LET e == call[k].file.entries
                ek == call[k].expected_key
                res == call[k].result
                first == IF ek # "" /\ e[ek].present THEN ek
                         ELSE IF e.public_inputs.present THEN "public_inputs"
                         ELSE IF e.proof.present THEN "proof"
                         ELSE ""
            IN /\ res.exc = "none" => res.key = first /\ first # ""
               /\ (first # "" /\ ~UsableList(e[first])) => res.exc = "SystemExit"
               /\ (first # "" /\ e[first] = ListEntry(<<IntValue(5)>>))
                     => res.felts = <<<<"0", "x", "5">>>>
               /\ (first # "" /\ e[first] = ListEntry(<<StrValue(<<" ", "1", "0", " ">>)>>))
                     => res.felts = <<<<"0", "x", "a">>>>

ProofReadFallsBackToPublicInputs ==
    /\ call # <<>>
    /\ call[1].file.kind = "dict"
    /\ call[1].expected_key = "proof"
    /\ ~call[1].file.entries.proof.present
    /\ call[1].file.entries.public_inputs = ListEntry(<<IntValue(5)>>)
    /\ call[1].result.exc = "none"
    /\ call[1].result.key = "public_inputs"
    /\ call[1].result.felts = <<<<"0", "x", "5">>>>

\* C25: the report is written only after two payloads were built and their
\* proofs differ; identical proofs, or a failure of either run, end the
\* process with status 1 and nothing on standard output; the first run's
\* lease, if it acquired one, has had its release() called and returned
\* before the second run begins, so that at most one acquired lease is
\* unreleased at any time; the second run starts only when the first has
\* returned its payload.
TestSequential ==
    /\ Len(stdout) <= 1
    /\ stdout # <<>> =>
          /\ bp.stage = "exit0"
          /\ Len(call) = 2
          /\ call[1].proof # call[2].proof
    /\ bp.stage = "exit0" => stdout # <<>>
    /\ bp.stage = "exit1" => stdout = <<>>
    /\ (Len(call) = 2 /\ call[1].proof = call[2].proof) =>
          (bp.stage \in {"compare", "exit1"} /\ stdout = <<>>)
    /\ Len(call) = 0 => bp.stage # "compare"
    /\ \A k \in 1..Len(call) :
          /\ call[k].lease # "none" => (call[k].pc = "done" /\ call[k].relCalls = 1)
          /\ call[k].lease = "none" => call[k].relCalls = 0
    /\ Cardinality({k \in 1..Len(call) : call[k].lease = "acquired" /\ call[k].relCalls = 0})
          + (IF Held(Bridge) THEN 1 ELSE 0) <= 1

SecondRunHoldsAfterFirstReleased ==
    /\ Len(call) = 1
    /\ call[1].lease = "acquired"
    /\ call[1].relCalls = 1
    /\ Held(Bridge)

\* A proof file in one of the accepted formats: a non-empty array, an object
\* whose "proof" is a non-empty array, or an object that has, itself or
\* under "proof", the three groups of keys of a Groth16 proof.
AcceptedProofFile(f) ==
    \/ f.kind = "list" /\ f.len >= 1
    \/ /\ f.kind = "dict"
       /\ \/ f.proof.type = "list" /\ f.proof.len >= 1
          \/ f.keys = {KeyA, KeyBs, KeyC}
          \/ f.proof.type = "dict" /\ f.proof.keys = {KeyA, KeyBs, KeyC}

\* A public inputs file with a non-empty array of numbers at the top level
\* or under public_inputs, or under proof when it has no public_inputs.
AcceptedInputsFile(f) ==
    LET good(items) == items # <<>> /\ \A i \in 1..Len(items) : items[i] \in ValidFeltInputs \cup {StrValue(<<" ", "1", "0", " ">>)}
    IN \/ f.kind = "list" /\ good(f.items)
       \/ /\ f.kind = "dict"
          /\ IF f.entries.public_inputs.present
             THEN f.entries.public_inputs.islist /\ good(f.entries.public_inputs.items)
             ELSE f.entries.proof.present /\ f.entries.proof.islist
                  /\ good(f.entries.proof.items)

\* C26: the ok status is on standard output only when the real prover
\* command is configured, it exited with status 0, and the proof file and
\* the public inputs file read after it are both accepted; a missing
\* command, any other end of the command and a refused file end the run
\* with status 1 and nothing written.
ProveOkOnlyIfValid ==
    /\ stdout # <<>> =>
          /\ stdout = <<[ok |-> TRUE]>>
          /\ bp.stage = "exit0"
          /\ cfg.real_cmd
          /\ proc[Bridge].result = "exit0"
          /\ Len(call) = 2
          /\ AcceptedProofFile(call[1])
          /\ AcceptedInputsFile(call[2])
    /\ bp.stage = "exit0" => stdout # <<>>
    /\ bp.stage = "exit1" => stdout = <<>>
    /\ ~cfg.real_cmd => bp.stage \in {"real_cmd", "exit1"}
    /\ proc[Bridge].result \in {"nonzero", "timeout", "oserror"} =>
          bp.stage \in {"prover", "exit1"}
    /\ (Len(call) >= 1 /\ ~AcceptedProofFile(call[1])) => bp.stage = "exit1"
    /\ (Len(call) = 2 /\ ~AcceptedInputsFile(call[2])) => bp.stage = "exit1"

ProveWroteOk ==
    /\ stdout = <<[ok |-> TRUE]>>
    /\ proc[Bridge].result = "exit0"
    /\ Len(call) = 2
    /\ call[1].kind = "dict"
    /\ call[1].keys = {KeyA, KeyBs, KeyC}
    /\ call[2].kind = "list"

\* C29: the counter (0 when the key is absent) is never negative and never
\* below the number of leases that are acquired and not yet released.
CounterAccuracy ==
    /\ store.val >= 0
    /\ store.val >= Cardinality({p \in Procs : Held(p)})

\* C30: an acquire call that has ended without an acquired lease, in strict
\* or in fail-open mode, has left no increment of its own on a key that
\* has no time to live.
NoLeakedIncrement ==
    \A p \in Clients :
        (/\ \/ proc[p].lease = "unacquired"
            \/ proc[p].outcome \in {"fatal_store", "fatal_queue_timeout"}
         /\ proc[p].pending >= 1
         /\ p \in counted)
            => (store.present /\ store.ttl > 0)

\* A slot is free and at least two processes are inside acquire with a
\* further attempt left before their deadlines.
FreeSlotAndTwoPolling ==
    /\ Cardinality({p \in Procs : Held(p)}) < MaxConcurrent
    /\ Cardinality({p \in Procs : InAcquire(p) /\ proc[p].polls < QueueTimeoutPolls}) >= 2

\* C31: whenever a slot is free and two or more processes are polling
\* before their deadlines, some process eventually holds a lease.
ProgressWhenFree == FreeSlotAndTwoPolling ~> (\E p \in Procs : Held(p))

TypeOK ==
    /\ store.present \in BOOLEAN
    /\ store.val \in -MaxCounter..MaxCounter
    /\ store.ttl \in 0..SlotTTL
    /\ \A p \in Procs : proc[p].pending \in -MaxReleaseCalls..(QueueTimeoutPolls + 1)
====
